---- MODULE Spec2Model ----
(***************************************************************************)
(* Model of aide/run.py: the run() controller loop, the SIGALRM deadline   *)
(* (timeout_handler), the checkpoints (save_run) and the at-exit cleanup.  *)
(*                                                                         *)
(* A node of the journal is represented by the number of the agent.step    *)
(* invocation that appended it; the journal is the sequence of its nodes   *)
(* in insertion order.                                                     *)
(*                                                                         *)
(* Spec and FairSpec describe run(); SpecTree describes the two renderers  *)
(* journal_to_rich_tree and journal_to_string_tree on journal trees whose  *)
(* nodes carry parent, is_buggy and metric.                                *)
(***************************************************************************)
EXTENDS Integers, Sequences, FiniteSets, TLC

\* ---- bounds ------------------------------------------------------------
\* largest cfg.agent.steps explored
MaxSteps == 2
\* largest number of nodes one agent.step invocation appends
MaxInsert == 2
\* cap on the number of agent.step invocations of one run
MaxCalls == MaxSteps + 1
\* largest number of exec_callback invocations inside one agent.step
MaxExec == 1
\* arguments and results of the interpreter call range over 1..MaxVal
MaxVal == 2
\* largest journal tree rendered
MaxNodes == 3
\* metric values range over 1..MaxMetric
MaxMetric == 2

VARIABLES
  pc,              \* position of the controller inside run() / the process
  steps,           \* cfg.agent.steps
  journal,         \* the Journal: sequence of nodes
  global_step,     \* the local variable global_step of run()
  global_step_set, \* FALSE while global_step is still unbound
  alarm,           \* state of the SIGALRM timer
  exc,             \* exception in flight while the finally block runs
  result,          \* how run() was left: "none" (still inside), "ok" or an error
  storage,         \* the snapshot in durable storage
  workspace,       \* cfg.workspace_dir: "present" or "deleted"
  stepCalls,       \* history: number of agent.step invocations started
  inserted,        \* nodes appended so far by the invocation in progress
  okSteps,         \* history: invocations of agent.step that returned
  snapshots,       \* history: every snapshot written, oldest first
  raised,          \* history: set of exceptions raised so far
  completed,       \* history: the loop condition evaluated to false
  timedOut,        \* history: the except SignalException clause was entered
  firedAt,         \* history: pc at which the alarm fired, "none" before
  callsAtCancel,   \* history: stepCalls when the alarm fired
  journalAtCancel, \* history: journal when the alarm fired
  finalSaveCalls,  \* history: calls of save_run in the finally block
  disarmCalls,     \* history: calls of signal.alarm(0)
  sessionCleanups, \* history: calls of interpreter.cleanup_session()
  status,          \* the text shown by the Status widget of line 143
  events,          \* status updates of the exec_callback invocation in progress
  cbArgs,          \* arguments the current exec_callback invocation received
  runArgs,         \* arguments interpreter.run received from it
  runOut,          \* what interpreter.run produced: <<"return", r>> or <<"raise">>
  cbOut,           \* what exec_callback produced, << >> while it runs
  execs,           \* exec_callback invocations of the agent.step in progress
  nodes,           \* a journal tree: sequence of Node records, by id
  richOut,         \* outcome of journal_to_rich_tree(nodes)
  strOut           \* outcome of journal_to_string_tree(nodes)

ex == <<status, events, cbArgs, runArgs, runOut, cbOut>>
treeVars == <<nodes, richOut, strOut>>

vars == <<pc, steps, journal, global_step, global_step_set, alarm, exc, result,
          storage, workspace, stepCalls, inserted, okSteps, snapshots, raised,
          completed, timedOut, firedAt, callsAtCancel, journalAtCancel,
          finalSaveCalls, disarmCalls, sessionCleanups, ex, execs, treeVars>>

ctl == <<pc, exc, result>>
hist == <<stepCalls, inserted, okSteps, snapshots, raised, completed, timedOut,
          firedAt, callsAtCancel, journalAtCancel, finalSaveCalls, disarmCalls>>

\* ---- helpers -----------------------------------------------------------
IsPrefix(s, t) == /\ Len(s) <= Len(t)
                  /\ \A i \in 1..Len(s) : s[i] = t[i]

\* positions inside the try body (lines 132-187)
TryBody == {"interp", "loop", "step", "exec_run", "exec_end", "save", "saved",
            "cleanup_session", "summary"}
\* positions inside the finally block (lines 191-192)
FinallyBody == {"finally", "fsave", "fsaved", "disarm"}

\* the loop condition of line 181
LoopCondOffByOne(g, s) == g <= s
LoopCondSwapped(g, s) == s < g
LoopCond(g, s) == g < s

\* the journal handed to save_run in the loop (line 183)
LoopSnapshotStale(j) == SubSeq(j, 1, global_step)
LoopSnapshot(j) == j

\* the journal handed to save_run in the finally block (line 191)
FinalSnapshotStale(j) == SubSeq(j, 1, global_step)
FinalSnapshot(j) == j

\* the condition of the at-exit hook (line 117); an unbound global_step
\* makes the hook raise NameError before it deletes anything
CleanupCond == global_step_set /\ global_step = 0

\* the new value of global_step at line 184
GlobalStepIncrement(g, j) == g + 1
GlobalStepNext(g, j) == Len(j)

\* a rendering that has not been produced
NotRendered == [done |-> FALSE, ok |-> FALSE, best |-> 0, entries |-> << >>]

\* ---- initial state: atexit.register(cleanup) done, journal = Journal() --
Init ==
  /\ pc = "start"
  /\ steps \in 1..MaxSteps
  /\ journal = << >>
  /\ global_step = 0
  /\ global_step_set = FALSE
  /\ alarm = "unarmed"
  /\ exc = "none"
  /\ result = "none"
  /\ storage = << >>
  /\ workspace = "present"
  /\ stepCalls = 0
  /\ inserted = 0
  /\ okSteps = {}
  /\ snapshots = << >>
  /\ raised = {}
  /\ completed = FALSE
  /\ timedOut = FALSE
  /\ firedAt = "none"
  /\ callsAtCancel = 0
  /\ journalAtCancel = << >>
  /\ finalSaveCalls = 0
  /\ disarmCalls = 0
  /\ sessionCleanups = 0
  /\ status = "generating"
  /\ events = << >>
  /\ cbArgs = 0
  /\ runArgs = 0
  /\ runOut = << >>
  /\ cbOut = << >>
  /\ execs = 0
  /\ nodes = << >>
  /\ richOut = NotRendered
  /\ strOut = NotRendered

\* ---- line 130: signal.alarm(agent.acfg.time_limit) ------------------------
ArmAlarm ==
  /\ pc = "start"
  /\ pc' = "armed"
  /\ alarm' = "armed"
  /\ UNCHANGED <<steps, journal, global_step, global_step_set, exc, result,
                 storage, workspace, hist>>
  /\ UNCHANGED <<ex, execs, sessionCleanups, treeVars>>

\* ---- line 131: control enters the try statement -----------------------------
EnterTry ==
  /\ pc = "armed"
  /\ pc' = "interp"
  /\ UNCHANGED <<steps, journal, global_step, global_step_set, alarm, exc,
                 result, storage, workspace, hist>>
  /\ UNCHANGED <<ex, execs, sessionCleanups, treeVars>>

\* ---- lines 132-144: Interpreter(...) returns; global_step = len(journal) ----
InterpreterInit ==
  /\ pc = "interp"
  /\ pc' = "loop"
  /\ global_step' = Len(journal)
  /\ global_step_set' = TRUE
  /\ UNCHANGED <<steps, journal, alarm, exc, result, storage, workspace, hist>>
  /\ UNCHANGED <<ex, execs, sessionCleanups, treeVars>>

\* ---- lines 132-134: Interpreter(...) raises; control goes to finally --------
InterpreterFail ==
  /\ pc = "interp"
  /\ pc' = "finally"
  /\ exc' = "InterpError"
  /\ raised' = raised \cup {"InterpError"}
  /\ UNCHANGED <<steps, journal, global_step, global_step_set, alarm, result,
                 storage, workspace, stepCalls, inserted, okSteps, snapshots,
                 completed, timedOut, firedAt, callsAtCancel, journalAtCancel,
                 finalSaveCalls, disarmCalls>>
  /\ UNCHANGED <<ex, execs, sessionCleanups, treeVars>>

\* ---- lines 181-182: loop condition true, agent.step is called ---------------
LoopBody ==
  /\ pc = "loop"
  /\ LoopCond(global_step, steps)
  /\ stepCalls < MaxCalls
  /\ pc' = "step"
  /\ stepCalls' = stepCalls + 1
  /\ inserted' = 0
  /\ UNCHANGED <<steps, journal, global_step, global_step_set, alarm, exc,
                 result, storage, workspace, okSteps, snapshots, raised,
                 completed, timedOut, firedAt, callsAtCancel, journalAtCancel,
                 finalSaveCalls, disarmCalls>>
  /\ execs' = 0
  /\ UNCHANGED <<ex, sessionCleanups, treeVars>>

\* ---- lines 181, 185: loop condition false, the loop is left -----------------
LoopExit ==
  /\ pc = "loop"
  /\ ~LoopCond(global_step, steps)
  /\ pc' = "cleanup_session"
  /\ completed' = TRUE
  /\ UNCHANGED <<steps, journal, global_step, global_step_set, alarm, exc,
                 result, storage, workspace, stepCalls, inserted, okSteps,
                 snapshots, raised, timedOut, firedAt, callsAtCancel,
                 journalAtCancel, finalSaveCalls, disarmCalls>>
  /\ UNCHANGED <<ex, execs, sessionCleanups, treeVars>>

\* ---- inside agent.step: the step function appends a node to the journal -----
StepInsert ==
  /\ pc = "step"
  /\ inserted < MaxInsert
  /\ journal' = Append(journal, stepCalls)
  /\ inserted' = inserted + 1
  /\ UNCHANGED <<ctl, steps, global_step, global_step_set, alarm, storage,
                 workspace, stepCalls, okSteps, snapshots, raised, completed,
                 timedOut, firedAt, callsAtCancel, journalAtCancel,
                 finalSaveCalls, disarmCalls>>
  /\ UNCHANGED <<ex, execs, sessionCleanups, treeVars>>

\* ---- line 147: agent.step calls exec_callback(a); the begin marker is shown --
ExecCall ==
  /\ pc = "step"
  /\ execs < MaxExec
  /\ \E a \in 1..MaxVal : cbArgs' = a
  /\ pc' = "exec_run"
  /\ execs' = execs + 1
  /\ status' = "executing"
  /\ events' = <<"begin">>
  /\ runArgs' = 0
  /\ runOut' = << >>
  /\ cbOut' = << >>
  /\ UNCHANGED <<exc, result, steps, journal, global_step, global_step_set,
                 alarm, storage, workspace, hist, sessionCleanups, treeVars>>

\* ---- line 148: res = interpreter.run(*args, **kwargs) returns ---------------
InterpRunReturn ==
  /\ pc = "exec_run"
  /\ pc' = "exec_end"
  /\ runArgs' = cbArgs
  /\ \E r \in 1..MaxVal : runOut' = <<"return", r>>
  /\ UNCHANGED <<exc, result, steps, journal, global_step, global_step_set,
                 alarm, storage, workspace, hist, sessionCleanups, status,
                 events, cbArgs, cbOut, execs, treeVars>>

\* ---- line 148: interpreter.run raises; the error leaves exec_callback -------
\* at once and arrives in agent.step
InterpRunRaise ==
  /\ pc = "exec_run"
  /\ pc' = "step"
  /\ runArgs' = cbArgs
  /\ runOut' = <<"raise">>
  /\ cbOut' = <<"raise">>
  /\ UNCHANGED <<exc, result, steps, journal, global_step, global_step_set,
                 alarm, storage, workspace, hist, sessionCleanups, status,
                 events, cbArgs, execs, treeVars>>

\* ---- lines 149-150: the end marker is shown; return res ---------------------
ExecReturn ==
  /\ pc = "exec_end"
  /\ pc' = "step"
  /\ status' = "generating"
  /\ events' = Append(events, "end")
  /\ cbOut' = runOut
  /\ UNCHANGED <<exc, result, steps, journal, global_step, global_step_set,
                 alarm, storage, workspace, hist, sessionCleanups, cbArgs,
                 runArgs, runOut, execs, treeVars>>

\* ---- line 182: agent.step returns; save_run is called (line 183) ------------
StepReturn ==
  /\ pc = "step"
  /\ pc' = "save"
  /\ okSteps' = okSteps \cup {stepCalls}
  /\ UNCHANGED <<steps, journal, global_step, global_step_set, alarm, exc,
                 result, storage, workspace, stepCalls, inserted, snapshots,
                 raised, completed, timedOut, firedAt, callsAtCancel,
                 journalAtCancel, finalSaveCalls, disarmCalls>>
  /\ UNCHANGED <<ex, execs, sessionCleanups, treeVars>>

\* ---- line 182: agent.step raises; no except clause matches ------------------
StepRaise ==
  /\ pc = "step"
  /\ pc' = "finally"
  /\ exc' = "StepError"
  /\ raised' = raised \cup {"StepError"}
  /\ UNCHANGED <<steps, journal, global_step, global_step_set, alarm, result,
                 storage, workspace, stepCalls, inserted, okSteps, snapshots,
                 completed, timedOut, firedAt, callsAtCancel, journalAtCancel,
                 finalSaveCalls, disarmCalls>>
  /\ UNCHANGED <<ex, execs, sessionCleanups, treeVars>>

\* ---- line 183: save_run writes the snapshot ---------------------------------
SaveWrite ==
  /\ pc = "save"
  /\ pc' = "saved"
  /\ storage' = LoopSnapshot(journal)
  /\ snapshots' = Append(snapshots, LoopSnapshot(journal))
  /\ UNCHANGED <<steps, journal, global_step, global_step_set, alarm, exc,
                 result, workspace, stepCalls, inserted, okSteps, raised,
                 completed, timedOut, firedAt, callsAtCancel, journalAtCancel,
                 finalSaveCalls, disarmCalls>>
  /\ UNCHANGED <<ex, execs, sessionCleanups, treeVars>>

\* ---- line 183: save_run raises before it wrote ------------------------------
SaveFail ==
  /\ pc = "save"
  /\ pc' = "finally"
  /\ exc' = "SaveError"
  /\ raised' = raised \cup {"SaveError"}
  /\ UNCHANGED <<steps, journal, global_step, global_step_set, alarm, result,
                 storage, workspace, stepCalls, inserted, okSteps, snapshots,
                 completed, timedOut, firedAt, callsAtCancel, journalAtCancel,
                 finalSaveCalls, disarmCalls>>
  /\ UNCHANGED <<ex, execs, sessionCleanups, treeVars>>

\* ---- lines 183-184: save_run returns; global_step = len(journal) ------------
SaveReturn ==
  /\ pc = "saved"
  /\ pc' = "loop"
  /\ global_step' = GlobalStepNext(global_step, journal)
  /\ UNCHANGED <<steps, journal, global_step_set, alarm, exc, result, storage,
                 workspace, hist>>
  /\ UNCHANGED <<ex, execs, sessionCleanups, treeVars>>

\* ---- line 185: interpreter.cleanup_session() --------------------------------
CleanupSession ==
  /\ pc = "cleanup_session"
  /\ pc' = "summary"
  /\ UNCHANGED <<steps, journal, global_step, global_step_set, alarm, exc,
                 result, storage, workspace, hist>>
  /\ sessionCleanups' = sessionCleanups + 1
  /\ UNCHANGED <<ex, execs, treeVars>>

\* ---- line 187: logger.info(journal_to_string_tree(journal)) -----------------
LogSummary ==
  /\ pc = "summary"
  /\ pc' = "finally"
  /\ UNCHANGED <<steps, journal, global_step, global_step_set, alarm, exc,
                 result, storage, workspace, hist>>
  /\ UNCHANGED <<ex, execs, sessionCleanups, treeVars>>

\* ---- line 187: journal_to_string_tree(journal) raises (a node it cannot ---
\* format, see RenderString); no except clause matches
LogSummaryFail ==
  /\ pc = "summary"
  /\ pc' = "finally"
  /\ exc' = "RenderError"
  /\ raised' = raised \cup {"RenderError"}
  /\ UNCHANGED <<steps, journal, global_step, global_step_set, alarm, result,
                 storage, workspace, stepCalls, inserted, okSteps, snapshots,
                 completed, timedOut, firedAt, callsAtCancel, journalAtCancel,
                 finalSaveCalls, disarmCalls>>
  /\ UNCHANGED <<ex, execs, sessionCleanups, treeVars>>

\* ---- lines 86-90: SIGALRM arrives, timeout_handler raises SignalException ---
\* inside the try body the exception is caught by line 188; inside the
\* finally block, or before the try statement, it leaves run() and replaces
\* any exception in flight; after run() it is raised in the caller
timeout_handlerIgnore ==
  /\ alarm = "armed"
  /\ pc \in {"armed", "done"} \cup TryBody \cup FinallyBody
  /\ alarm' = "fired"
  /\ firedAt' = pc
  /\ callsAtCancel' = stepCalls
  /\ journalAtCancel' = journal
  /\ UNCHANGED <<ctl, steps, journal, global_step, global_step_set, storage,
                 workspace, stepCalls, inserted, okSteps, snapshots, raised,
                 completed, timedOut, finalSaveCalls, disarmCalls>>
  /\ UNCHANGED <<ex, execs, sessionCleanups, treeVars>>
timeout_handler ==
  /\ alarm = "armed"
  /\ pc \in {"armed", "done"} \cup TryBody \cup FinallyBody
  /\ alarm' = "fired"
  /\ firedAt' = pc
  /\ callsAtCancel' = stepCalls
  /\ journalAtCancel' = journal
  /\ raised' = raised \cup {"SignalException"}
  /\ IF pc \in TryBody
       THEN /\ pc' = "except"
            /\ timedOut' = TRUE
            /\ UNCHANGED <<exc, result>>
       ELSE IF pc = "done"
       THEN UNCHANGED <<pc, exc, result, timedOut>>
       ELSE /\ pc' = "done"
            /\ result' = "SignalException"
            /\ exc' = "none"
            /\ UNCHANGED timedOut
  /\ UNCHANGED <<steps, journal, global_step, global_step_set, storage,
                 workspace, stepCalls, inserted, okSteps, snapshots, completed,
                 finalSaveCalls, disarmCalls>>
  /\ UNCHANGED <<ex, execs, sessionCleanups, treeVars>>

\* ---- lines 188-189: except SignalException: logger.info(...) ----------------
ExceptTargetRetry == "loop"
ExceptTargetCleanup == "cleanup_session"
ExceptTarget == "finally"
ExceptHandler ==
  /\ pc = "except"
  /\ pc' = ExceptTarget
  /\ UNCHANGED <<steps, journal, global_step, global_step_set, alarm, exc,
                 result, storage, workspace, hist>>
  /\ UNCHANGED <<ex, execs, sessionCleanups, treeVars>>

\* ---- line 191: save_run is called in the finally block ----------------------
FinalSaveCall ==
  /\ pc = "finally"
  /\ pc' = "fsave"
  /\ finalSaveCalls' = finalSaveCalls + 1
  /\ UNCHANGED <<steps, journal, global_step, global_step_set, alarm, exc,
                 result, storage, workspace, stepCalls, inserted, okSteps,
                 snapshots, raised, completed, timedOut, firedAt,
                 callsAtCancel, journalAtCancel, disarmCalls>>
  /\ UNCHANGED <<ex, execs, sessionCleanups, treeVars>>

\* ---- line 191: save_run writes the snapshot ---------------------------------
FinalSaveWrite ==
  /\ pc = "fsave"
  /\ pc' = "fsaved"
  /\ storage' = FinalSnapshot(journal)
  /\ snapshots' = Append(snapshots, FinalSnapshot(journal))
  /\ UNCHANGED <<steps, journal, global_step, global_step_set, alarm, exc,
                 result, workspace, stepCalls, inserted, okSteps, raised,
                 completed, timedOut, firedAt, callsAtCancel, journalAtCancel,
                 finalSaveCalls, disarmCalls>>
  /\ UNCHANGED <<ex, execs, sessionCleanups, treeVars>>

\* ---- line 191: save_run raises inside finally; its error leaves run() -------
FinalSaveFail ==
  /\ pc = "fsave"
  /\ pc' = "done"
  /\ result' = "SaveError"
  /\ exc' = "none"
  /\ raised' = raised \cup {"SaveError"}
  /\ UNCHANGED <<steps, journal, global_step, global_step_set, alarm, storage,
                 workspace, stepCalls, inserted, okSteps, snapshots, completed,
                 timedOut, firedAt, callsAtCancel, journalAtCancel,
                 finalSaveCalls, disarmCalls>>
  /\ UNCHANGED <<ex, execs, sessionCleanups, treeVars>>

\* ---- line 191: save_run returns ---------------------------------------------
FinalSaveReturn ==
  /\ pc = "fsaved"
  /\ pc' = "disarm"
  /\ UNCHANGED <<steps, journal, global_step, global_step_set, alarm, exc,
                 result, storage, workspace, hist>>
  /\ UNCHANGED <<ex, execs, sessionCleanups, treeVars>>

\* ---- line 192: signal.alarm(0); the finally block ends and run() is left, ---
\* re-raising the exception in flight if there is one
Disarm ==
  /\ pc = "disarm"
  /\ pc' = "done"
  /\ alarm' = IF alarm = "armed" THEN "disarmed" ELSE alarm
  /\ disarmCalls' = disarmCalls + 1
  /\ result' = IF exc = "none" THEN "ok" ELSE exc
  /\ exc' = "none"
  /\ UNCHANGED <<steps, journal, global_step, global_step_set, storage,
                 workspace, stepCalls, inserted, okSteps, snapshots, raised,
                 completed, timedOut, firedAt, callsAtCancel, journalAtCancel,
                 finalSaveCalls>>
  /\ UNCHANGED <<ex, execs, sessionCleanups, treeVars>>

\* ---- lines 116-118: the at-exit hook cleanup() ------------------------------
cleanup ==
  /\ pc = "done"
  /\ pc' = "exited"
  /\ workspace' = IF CleanupCond THEN "deleted" ELSE workspace
  /\ UNCHANGED <<steps, journal, global_step, global_step_set, alarm, exc,
                 result, storage, hist>>
  /\ UNCHANGED <<ex, execs, sessionCleanups, treeVars>>

Next ==
  \/ ArmAlarm
  \/ EnterTry
  \/ InterpreterInit
  \/ InterpreterFail
  \/ LoopBody
  \/ LoopExit
  \/ StepInsert
  \/ ExecCall
  \/ InterpRunReturn
  \/ InterpRunRaise
  \/ ExecReturn
  \/ StepReturn
  \/ StepRaise
  \/ SaveWrite
  \/ SaveFail
  \/ SaveReturn
  \/ CleanupSession
  \/ LogSummary
  \/ LogSummaryFail
  \/ timeout_handler
  \/ ExceptHandler
  \/ FinalSaveCall
  \/ FinalSaveWrite
  \/ FinalSaveFail
  \/ FinalSaveReturn
  \/ Disarm
  \/ cleanup

Spec == Init /\ [][Next]_vars

\* ---- the journal tree and its two renderers (lines 33-83) -------------------
\* A Node is a record [parent, buggy, metric]: parent is the id of the parent
\* node, 0 for a draft node; metric is << >> when absent and <<v>> when
\* present; the id of a node is its index in the sequence (insertion order).
NodeKinds ==
  {[buggy |-> TRUE, metric |-> << >>], [buggy |-> FALSE, metric |-> << >>]}
    \cup {[buggy |-> FALSE, metric |-> <<v>>] : v \in 1..MaxMetric}

\* a node that can be chosen as best
IsCandidate(ns, i) == ~ns[i].buggy /\ ns[i].metric # << >>

\* journal.get_best_node() (lines 34 and 58): scan in insertion order, keep
\* the first node of maximal metric; 0 stands for None
RECURSIVE BestScan(_, _, _)
BestScan(ns, i, best) ==
  IF i > Len(ns) THEN best
  ELSE IF IsCandidate(ns, i)
          /\ (best = 0 \/ ns[i].metric[1] > ns[best].metric[1])
       THEN BestScan(ns, i + 1, i)
       ELSE BestScan(ns, i + 1, best)

RECURSIVE BestScanLatest(_, _, _)
BestScanLatest(ns, i, best) ==
  IF i > Len(ns) THEN best
  ELSE IF IsCandidate(ns, i)
          /\ (best = 0 \/ ns[i].metric[1] >= ns[best].metric[1])
       THEN BestScanLatest(ns, i + 1, i)
       ELSE BestScanLatest(ns, i + 1, best)

get_best_nodeLatest(ns) == BestScanLatest(ns, 1, 0)
get_best_node(ns) == BestScan(ns, 1, 0)

\* node.children of node n, in insertion order; journal.draft_nodes for n = 0
Children(ns, n) ==
  SelectSeq([i \in 1..Len(ns) |-> i], LAMBDA i : ns[i].parent = n)

draft_nodes(ns) == Children(ns, 0)

\* node.metric.value of a non-buggy node without metric raises (lines 43, 45,
\* 73, 75)
Raises(ns, n) == ~ns[n].buggy /\ ns[n].metric = << >>

\* the text s built by append_rec of journal_to_rich_tree (lines 37-45)
RichLabel(ns, n, best) ==
  IF ns[n].buggy THEN [kind |-> "bug", bold |-> FALSE, value |-> << >>]
  ELSE IF Raises(ns, n) THEN [kind |-> "raise", bold |-> FALSE, value |-> << >>]
  ELSE IF n = best THEN [kind |-> "best", bold |-> TRUE, value |-> ns[n].metric]
  ELSE [kind |-> "metric", bold |-> FALSE, value |-> ns[n].metric]

\* the text s built by append_rec of journal_to_string_tree (lines 63-75)
StringLabel(ns, n, best) ==
  IF ns[n].buggy THEN [kind |-> "bug", value |-> << >>, id |-> n]
  ELSE IF Raises(ns, n) THEN [kind |-> "raise", value |-> << >>, id |-> n]
  ELSE IF n = best THEN [kind |-> "best", value |-> ns[n].metric, id |-> n]
  ELSE [kind |-> "metric", value |-> ns[n].metric, id |-> n]

\* append_rec(node, tree) of lines 36-49: add the label under the subtree of
\* the parent entry, then recurse into the children
RECURSIVE RichRec(_, _, _, _)
RECURSIVE RichAll(_, _, _, _)
RichRec(ns, n, under, best) ==
  <<[node |-> n, under |-> under, label |-> RichLabel(ns, n, best)]>>
    \o RichAll(ns, Children(ns, n), n, best)
RichAll(ns, cs, under, best) ==
  IF cs = << >> THEN << >>
  ELSE RichRec(ns, Head(cs), under, best) \o RichAll(ns, Tail(cs), under, best)

\* append_rec(node, level) of lines 61-78: append the indented line, then
\* recurse into the children one level deeper
RECURSIVE StringRec(_, _, _, _)
RECURSIVE StringAll(_, _, _, _)
StringRec(ns, n, level, best) ==
  <<[node |-> n, level |-> level, label |-> StringLabel(ns, n, best)]>>
    \o StringAll(ns, Children(ns, n), level + 1, best)
StringAll(ns, cs, level, best) ==
  IF cs = << >> THEN << >>
  ELSE StringRec(ns, Head(cs), level, best) \o StringAll(ns, Tail(cs), level, best)

\* the exception of a label ends the walk: what was added before it stays
RECURSIVE CutAtRaise(_)
CutAtRaise(es) ==
  IF es = << >> \/ Head(es).label.kind = "raise" THEN << >>
  ELSE <<Head(es)>> \o CutAtRaise(Tail(es))

Rendering(best, es) ==
  [done |-> TRUE,
   ok |-> \A i \in 1..Len(es) : es[i].label.kind # "raise",
   best |-> best,
   entries |-> CutAtRaise(es)]

\* lines 33-54
journal_to_rich_tree(ns) ==
  LET best == get_best_node(ns)
  IN  Rendering(best, RichAll(ns, draft_nodes(ns), 0, best))

\* lines 57-83
journal_to_string_tree(ns) ==
  LET best == get_best_node(ns)
  IN  Rendering(best, StringAll(ns, draft_nodes(ns), 0, best))

\* everything of run() that the renderers do not touch
runVars == <<pc, steps, journal, global_step, global_step_set, alarm, exc,
             result, storage, workspace, hist, sessionCleanups, ex, execs>>

\* a node is inserted under an existing node or as a draft node; renderings
\* of the journal as it was before are dropped
TreeInsert ==
  /\ Len(nodes) < MaxNodes
  /\ \E p \in 0..Len(nodes), k \in NodeKinds :
       nodes' = Append(nodes, [parent |-> p, buggy |-> k.buggy, metric |-> k.metric])
  /\ richOut' = NotRendered
  /\ strOut' = NotRendered
  /\ UNCHANGED runVars

\* line 153: tree = journal_to_rich_tree(journal)
RenderRich ==
  /\ ~richOut.done
  /\ richOut' = journal_to_rich_tree(nodes)
  /\ UNCHANGED <<nodes, strOut, runVars>>

\* line 187: journal_to_string_tree(journal)
RenderString ==
  /\ ~strOut.done
  /\ strOut' = journal_to_string_tree(nodes)
  /\ UNCHANGED <<nodes, richOut, runVars>>

InitTree == Init /\ steps = 1

NextTree ==
  \/ TreeInsert
  \/ RenderRich
  \/ RenderString

SpecTree == InitTree /\ [][NextTree]_vars

\* the deadline timer eventually fires while it is armed, and the controller's
\* own code outside the step function keeps running; calls of save_run return.
\* Nothing is assumed about agent.step, the interpreter or the renderer.
Fairness ==
  /\ WF_vars(timeout_handler)
  /\ WF_vars(ArmAlarm)
  /\ WF_vars(ExceptHandler)
  /\ WF_vars(FinalSaveCall)
  /\ WF_vars(FinalSaveWrite)
  /\ WF_vars(FinalSaveReturn)
  /\ WF_vars(Disarm)

FairSpec == Init /\ [][Next]_vars /\ Fairness

TypeOK ==
  /\ pc \in {"start", "armed", "except", "done", "exited"} \cup TryBody \cup FinallyBody
  /\ steps \in 1..MaxSteps
  /\ global_step \in 0..Len(journal)
  /\ alarm \in {"unarmed", "armed", "fired", "disarmed"}
  /\ workspace \in {"present", "deleted"}
  /\ stepCalls \in 0..MaxCalls

\* ---- derived notions used by the properties ------------------------------
\* run() has been left
Left == pc \in {"done", "exited"}

\* number of nodes the k-th invocation of agent.step appended
NodesOf(k) == Cardinality({i \in 1..Len(journal) : journal[i] = k})

\* every invocation of agent.step so far appended exactly one node
AllStepsInsertOne == \A k \in 1..stepCalls : NodesOf(k) = 1

\* terminal outcomes of a run
OutcomeCompleted == completed
OutcomeTimedOut == timedOut
OutcomeFailed == result \notin {"none", "ok"}

\* the save_run call of the finally block has returned
FinalCheckpointDone ==
  \/ pc \in {"fsaved", "disarm"}
  \/ Left /\ disarmCalls = 1

\* ---- C1 ------------------------------------------------------------------
\* C1 (as stated): a run that ends without cancellation and without any
\* failure has invoked agent.step exactly cfg.agent.steps times.
C1_ExactlyBudgetCalls ==
  (Left /\ firedAt = "none" /\ raised = {}) => stepCalls = steps

\* C1 (amended): a run that ends without cancellation and without any failure,
\* and in which every agent.step invocation appended exactly one node, has
\* invoked agent.step exactly cfg.agent.steps times, never one more.
C1_ExactlyBudgetCallsOneNodeEach ==
  (Left /\ firedAt = "none" /\ raised = {} /\ AllStepsInsertOne)
    => stepCalls = steps

C1_Witness ==
  /\ pc = "done" /\ result = "ok" /\ firedAt = "none" /\ raised = {}
  /\ AllStepsInsertOne
  /\ steps >= 2
  /\ stepCalls = steps

\* ---- C2 ------------------------------------------------------------------
\* C2: when run() has been left after the try statement was entered, and
\* wherever the deadline fired, exactly one of the outcomes Completed (loop
\* condition false), TimedOut (cancellation caught), Failed (error propagated)
\* holds.  Stated for the runs in which nothing but the deadline raises.
C2_ExactlyOneOutcome ==
  (Left /\ firedAt # "armed" /\ raised \subseteq {"SignalException"}) =>
    /\ OutcomeCompleted \/ OutcomeTimedOut \/ OutcomeFailed
    /\ ~(OutcomeCompleted /\ OutcomeTimedOut)
    /\ ~(OutcomeTimedOut /\ OutcomeFailed)
    /\ ~(OutcomeCompleted /\ OutcomeFailed)

\* ---- C3 ------------------------------------------------------------------
\* C3: a run that entered the try statement and in which nothing but the
\* deadline's SignalException was raised leaves run() without error.
C3_DeadlineNeverPropagates ==
  (Left /\ firedAt # "armed" /\ raised \subseteq {"SignalException"})
    => result = "ok"

\* ---- C4 ------------------------------------------------------------------
\* C4: once the loop was reached, run() is left only after save_run was
\* called exactly once in the finally block and signal.alarm(0) was executed,
\* so that no deadline is pending any more.
C4_FinalCheckpointAndDisarm ==
  (Left /\ global_step_set) =>
    /\ finalSaveCalls = 1
    /\ disarmCalls = 1
    /\ alarm # "armed"

\* ---- C5 ------------------------------------------------------------------
\* C5: after the at-exit hook ran in a run that reached the loop, the
\* workspace is deleted if and only if the journal is empty.
C5_DeletedIffJournalEmpty ==
  (pc = "exited" /\ global_step_set)
    => (workspace = "deleted" <=> Len(journal) = 0)

\* ---- C6 ------------------------------------------------------------------
\* C6: once the cancellation was caught, no further agent.step invocation is
\* started and the journal stays as it was when the alarm fired; it holds only
\* nodes of invocations that returned and of the interrupted invocation, and
\* the final checkpoint persists exactly that journal.
C6_TimeoutKeepsCommittedNodes ==
  timedOut =>
    /\ stepCalls = callsAtCancel
    /\ journal = journalAtCancel
    /\ \A i \in 1..Len(journal) : journal[i] \in okSteps \cup {callsAtCancel}
    /\ FinalCheckpointDone => storage = journalAtCancel

C6_Witness ==
  /\ pc = "done" /\ timedOut /\ firedAt = "step"
  /\ FinalCheckpointDone
  /\ okSteps # {}
  /\ callsAtCancel \notin okSteps
  /\ \E i \in 1..Len(storage) : storage[i] = callsAtCancel
  /\ \E i \in 1..Len(storage) : storage[i] \in okSteps

\* ---- C7 ------------------------------------------------------------------
\* C7: after agent.step raised, the controller is never in the loop again,
\* the snapshot persisted by the final checkpoint holds every node of the
\* invocations that returned, and run() is left with that same error.
C7_StepErrorNoRetryAndPropagates ==
  "StepError" \in raised =>
    /\ pc \notin {"loop", "step", "save", "saved"}
    /\ Left =>
         /\ \A i \in 1..Len(journal) :
              journal[i] \in okSteps => (i <= Len(storage) /\ storage[i] = journal[i])
         /\ result = "StepError"

\* ---- C8 ------------------------------------------------------------------
\* C8: when agent.step raised and the final checkpoint failed or was
\* interrupted, the error that leaves run() is still the step's error.
C8_PrimaryErrorNotMasked ==
  (Left /\ "StepError" \in raised /\ finalSaveCalls = 1 /\ disarmCalls = 0)
    => result = "StepError"

\* ---- C9 ------------------------------------------------------------------
\* C9: after the loop condition evaluated to false no cancellation is ever
\* delivered, and after the cancellation was consumed the deadline is not
\* pending.
C9_NoCancellationAfterLoop ==
  /\ completed => firedAt = "none"
  /\ timedOut => alarm # "armed"

\* ---- C10 -----------------------------------------------------------------
\* C10: every snapshot written extends every snapshot written before it, the
\* snapshot in storage is the last one written, and it is part of the journal.
C10_CheckpointsMonotonic ==
  /\ \A i, j \in 1..Len(snapshots) :
       i <= j => IsPrefix(snapshots[i], snapshots[j])
  /\ snapshots # << >> => storage = snapshots[Len(snapshots)]
  /\ IsPrefix(storage, journal)

C10_Witness ==
  /\ pc = "done"
  /\ Len(snapshots) >= 3
  /\ Len(snapshots[1]) >= 1
  /\ Len(snapshots[1]) < Len(snapshots[Len(snapshots)])
  /\ storage = journal

\* ---- C11 -----------------------------------------------------------------
\* C11: if the deadline timer eventually fires and save_run returns, every
\* run eventually leaves run(), also when agent.step blocks for ever or never
\* appends a node.
C11_EventuallyTerminal == <>(pc \in {"done", "exited"})

C11_Witness ==
  /\ pc = "done"
  /\ firedAt = "step"
  /\ journal = << >>
  /\ stepCalls >= 2

\* ---- C12 -----------------------------------------------------------------
\* C12: every exec_callback invocation that has finished showed the begin
\* marker and then the end marker, handed its own arguments to
\* interpreter.run, and produced exactly what interpreter.run produced.
C12_MarkersPairedAndTransparent ==
  cbOut # << >> =>
    /\ events = <<"begin", "end">>
    /\ runArgs = cbArgs
    /\ cbOut = runOut

\* ---- C14 -----------------------------------------------------------------
\* C14: whenever the loop condition is evaluated after at least one step
\* invocation, the snapshot in storage equals the journal and global_step
\* equals the journal's size.
C14_CheckpointedBeforeLoopTest ==
  (pc = "loop" /\ stepCalls >= 1) =>
    /\ storage = journal
    /\ global_step = Len(journal)

C14_Witness ==
  /\ pc = "loop"
  /\ stepCalls >= 2
  /\ Len(journal) >= 2
  /\ storage = journal

\* ---- C15 -----------------------------------------------------------------
\* C15: once the loop condition evaluated to false the journal holds at least
\* cfg.agent.steps nodes, and while agent.step runs the journal held fewer
\* than cfg.agent.steps nodes when that invocation started.
C15_LoopConditionOnJournalSize ==
  /\ completed => Len(journal) >= steps
  /\ pc \in {"step", "exec_run", "exec_end"} => Len(journal) - inserted < steps

C15_Witness ==
  /\ pc = "done"
  /\ completed
  /\ Len(journal) > steps
  /\ \E k \in 1..stepCalls : NodesOf(k) = 0

\* ---- C18 -----------------------------------------------------------------
\* C18: global_step, once assigned, never decreases and never exceeds the
\* journal's size; it equals the size whenever the loop condition is
\* evaluated, and is smaller only while agent.step or its save_run is in
\* progress or after an exception ended the loop.
C18_ProgressCounter ==
  /\ [](global_step_set => global_step <= Len(journal))
  /\ [](pc = "loop" => global_step = Len(journal))
  /\ []((global_step_set /\ global_step < Len(journal)) =>
          \/ pc \in {"step", "exec_run", "exec_end", "save", "saved"}
          \/ raised # {})
  /\ [][global_step' >= global_step]_vars

C18_Witness ==
  /\ pc = "saved"
  /\ global_step >= 1
  /\ global_step < Len(journal)

\* ---- C19 -----------------------------------------------------------------
\* C19: interpreter.cleanup_session() is called at most once, only after the
\* loop condition evaluated to false, and never in a run whose loop was left
\* by the deadline or by an error of agent.step.
C19_SessionCleanupOnlyAfterLoop ==
  /\ sessionCleanups <= 1
  /\ sessionCleanups = 1 => completed
  /\ (firedAt \in {"loop", "step", "exec_run", "exec_end", "save", "saved"}
      \/ "StepError" \in raised) => sessionCleanups = 0

C19_Witness ==
  /\ pc = "done"
  /\ completed
  /\ sessionCleanups = 1

\* ---- notions used by the properties of the renderers -----------------------
Candidates(ns) == {i \in 1..Len(ns) : IsCandidate(ns, i)}

\* b is the earliest node of maximal metric among the candidates, 0 if none
IsBestOf(ns, b) ==
  /\ b = 0 <=> Candidates(ns) = {}
  /\ b # 0 =>
       /\ b \in Candidates(ns)
       /\ \A c \in Candidates(ns) :
            /\ ns[c].metric[1] <= ns[b].metric[1]
            /\ ns[c].metric[1] = ns[b].metric[1] => b <= c

\* the nodes in the order a rendering visited them
Visited(out) == [i \in 1..Len(out.entries) |-> out.entries[i].node]

\* a is n or an ancestor of n
RECURSIVE IsAncestor(_, _, _)
IsAncestor(ns, a, n) ==
  IF n = 0 THEN FALSE
  ELSE IF n = a THEN TRUE
  ELSE IsAncestor(ns, a, ns[n].parent)

PosIn(v, n) == CHOOSE i \in 1..Len(v) : v[i] = n

\* v is the pre-order walk of ns: every node once, a node after its parent,
\* siblings and draft nodes in insertion order, subtrees not interleaved
IsPreOrder(ns, v) ==
  /\ Len(v) = Len(ns)
  /\ \A n \in 1..Len(ns) : \E i \in 1..Len(v) : v[i] = n
  /\ \A n \in 1..Len(ns) :
       ns[n].parent # 0 => PosIn(v, ns[n].parent) < PosIn(v, n)
  /\ \A a, b \in 1..Len(ns) :
       (a < b /\ ns[a].parent = ns[b].parent) =>
          \A d \in 1..Len(ns) : IsAncestor(ns, a, d) => PosIn(v, d) < PosIn(v, b)

\* the nodes a rendering marked as best
MarkedBest(out) ==
  {out.entries[i].node : i \in {j \in 1..Len(out.entries) :
                                  out.entries[j].label.kind = "best"}}

\* ---- C13 -----------------------------------------------------------------
\* C13: the best node each renderer uses is the non-buggy node with a metric
\* whose metric is maximal, the earliest inserted among equals, and it is
\* absent exactly when no node is non-buggy with a metric.
C13_BestNodeMaxEarliest ==
  /\ richOut.done => IsBestOf(nodes, richOut.best)
  /\ strOut.done => IsBestOf(nodes, strOut.best)

C13_Witness ==
  /\ richOut.done /\ strOut.done
  /\ richOut.best # 0
  /\ \E c \in Candidates(nodes) :
       c > richOut.best /\ nodes[c].metric = nodes[richOut.best].metric
  /\ \E n \in 1..Len(nodes) : nodes[n].buggy

\* ---- C16 -----------------------------------------------------------------
\* C16: for every journal tree both renderers visit every node exactly once
\* in the same pre-order, and both mark exactly the best node as best.
C16_RenderersAgree ==
  (richOut.done /\ strOut.done) =>
    /\ Visited(richOut) = Visited(strOut)
    /\ IsPreOrder(nodes, Visited(richOut))
    /\ MarkedBest(richOut) = {get_best_node(nodes)} \ {0}
    /\ MarkedBest(strOut) = {get_best_node(nodes)} \ {0}
    /\ \A n \in MarkedBest(richOut) \cup MarkedBest(strOut) : ~nodes[n].buggy

\* ---- C17 -----------------------------------------------------------------
\* C17: for every journal the data model allows, both renderings succeed and
\* label every node as buggy, as metric or as best.
C17_RenderingSucceeds ==
  /\ richOut.done =>
       /\ richOut.ok
       /\ Len(richOut.entries) = Len(nodes)
       /\ \A i \in 1..Len(richOut.entries) :
            richOut.entries[i].label.kind \in {"bug", "metric", "best"}
  /\ strOut.done =>
       /\ strOut.ok
       /\ Len(strOut.entries) = Len(nodes)
       /\ \A i \in 1..Len(strOut.entries) :
            strOut.entries[i].label.kind \in {"bug", "metric", "best"}
====
